---- MODULE Spec2Model ----
(***************************************************************************)
(* Handradi file server: cmd/server/server.go (gates, handlers, presign     *)
(* protocol) over internal/db/db.go (client registry) and a file system.    *)
(*                                                                          *)
(* Strings are sequences of byte values, so that sanitizing, path cleaning, *)
(* splitting on '|', integer parsing, base64 and bit flips are computed as  *)
(* the code computes them.                                                  *)
(***************************************************************************)
EXTENDS Integers, Sequences, FiniteSets, TLC

(***************************************************************************)
(* Byte values of the characters the code tests for.                        *)
(***************************************************************************)
Ch == [ plus |-> 43, minus |-> 45, dot |-> 46, slash |-> 47, zero |-> 48,
        nine |-> 57, upA |-> 65, upZ |-> 90, under |-> 95, lowA |-> 97,
        lowZ |-> 122, pipe |-> 124 ]

(***************************************************************************)
(* The records of the model.  A request has the endpoint, the method, the   *)
(* query parameters client, filename, q (the token) and resize (width or    *)
(* height given), the x-api-key header and the body.  A response starts     *)
(* empty over the file system the handler finds.                            *)
(***************************************************************************)
Request(ep, method, client, filename, key, body, q, resize) ==
    [ep |-> ep, method |-> method, client |-> client, filename |-> filename,
     key |-> key, body |-> body, q |-> q, resize |-> resize]

FileSystem(dirs, files) == [dirs |-> dirs, files |-> files]

NewResponse(fs) ==
    [fs |-> fs, writes |-> <<>>, msgs |-> <<>>, invoked |-> FALSE, panicked |-> FALSE,
     path |-> <<>>, fsop |-> "none", fsok |-> FALSE, origin |-> "", methods |-> "",
     url |-> <<>>, listing |-> {}]

Exchange(r, w, before) == [r |-> r, w |-> w, before |-> before]

User(client_id, api_key, allowed_origin) ==
    [client_id |-> client_id, api_key |-> api_key, allowed_origin |-> allowed_origin]

Environment(now, secret, reg) == [now |-> now, secret |-> secret, reg |-> reg]

FsResult(ok, fs) == [fs |-> fs, ok |-> ok]

\* a call of saveFile in progress: where it stands, its file and its bytes
SaveCall(pc, path, content) == [path |-> path, pc |-> pc, content |-> content]

\* "./storage"
storageRoot == <<46, 47, 115, 116, 111, 114, 97, 103, 101>>

(***************************************************************************)
(* Bounds of the model.                                                     *)
(***************************************************************************)
\* latest instant the clock is observed at
MaxNow == 301
\* number of signature bytes kept of the MAC
SigLen == 3
\* number of uploads that run at the same time
MaxUploads == 2

(***************************************************************************)
(* Generic sequence helpers.                                                *)
(***************************************************************************)
RECURSIVE Filter(_, _)
Filter(s, keep) ==
    IF s = <<>> THEN <<>>
    ELSE (IF Head(s) \in keep THEN <<Head(s)>> ELSE <<>>) \o Filter(Tail(s), keep)

Contains(s, b) == \E i \in 1..Len(s) : s[i] = b

\* index of the first occurrence of b in s from position i on, 0 when there is none
RECURSIVE IndexFrom(_, _, _)
IndexFrom(s, b, i) ==
    IF i > Len(s) THEN 0 ELSE IF s[i] = b THEN i ELSE IndexFrom(s, b, i + 1)

FirstIndex(s, b) == IndexFrom(s, b, 1)

\* index of the last occurrence of b in s up to position i, 0 when there is none
RECURSIVE IndexBack(_, _, _)
IndexBack(s, b, i) ==
    IF i = 0 THEN 0 ELSE IF s[i] = b THEN i ELSE IndexBack(s, b, i - 1)

LastIndex(s, b) == IndexBack(s, b, Len(s))

RECURSIVE JoinWith(_, _)
JoinWith(parts, sep) ==
    IF parts = <<>> THEN <<>>
    ELSE IF Len(parts) = 1 THEN parts[1]
    ELSE parts[1] \o <<sep>> \o JoinWith(Tail(parts), sep)

\* strings.Split(s, sep) for a one-byte separator: always at least one part
RECURSIVE Split(_, _)
Split(s, sep) ==
    LET i == FirstIndex(s, sep)
    IN  IF i = 0 THEN <<s>>
        ELSE <<SubSeq(s, 1, i - 1)>> \o Split(SubSeq(s, i + 1, Len(s)), sep)

(***************************************************************************)
(* sanitizeClient: keep [A-Za-z0-9_-], drop every other byte.               *)
(***************************************************************************)
ClientChars ==
    (Ch.lowA..Ch.lowZ) \cup (Ch.upA..Ch.upZ) \cup (Ch.zero..Ch.nine) \cup {Ch.under, Ch.minus}

\* a sanitizer that drops nothing
sanitizeClientKeepsAll(client) == client

\* sanitizeClient: the runes outside [a-zA-Z0-9_-] are dropped
sanitizeClient(client) == Filter(client, ClientChars)

(***************************************************************************)
(* path/filepath on a Unix build: Clean, Join, Base, Dir.                   *)
(***************************************************************************)
DotStr == <<Ch.dot>>
DotDotStr == <<Ch.dot, Ch.dot>>
SlashStr == <<Ch.slash>>

\* the component stack of Clean: "" and "." are dropped, ".." pops a name,
\* stays at the front of a relative path and is dropped at the root
RECURSIVE CleanStack(_, _, _)
CleanStack(comps, stack, rooted) ==
    IF comps = <<>> THEN stack
    ELSE LET c == Head(comps)
             rest == Tail(comps)
         IN  IF c = <<>> \/ c = DotStr THEN CleanStack(rest, stack, rooted)
             ELSE IF c = DotDotStr
                  THEN IF stack # <<>> /\ stack[Len(stack)] # DotDotStr
                       THEN CleanStack(rest, SubSeq(stack, 1, Len(stack) - 1), rooted)
                       ELSE IF rooted THEN CleanStack(rest, stack, rooted)
                       ELSE CleanStack(rest, Append(stack, c), rooted)
                  ELSE CleanStack(rest, Append(stack, c), rooted)

Clean(path) ==
    LET rooted == path # <<>> /\ path[1] = Ch.slash
        body == JoinWith(CleanStack(Split(path, Ch.slash), <<>>, rooted), Ch.slash)
        out == (IF rooted THEN SlashStr ELSE <<>>) \o body
    IN  IF out = <<>> THEN DotStr ELSE out

\* filepath.Join: empty elements are ignored, the rest joined by '/' and cleaned
RECURSIVE DropEmpty(_)
DropEmpty(elems) ==
    IF elems = <<>> THEN <<>>
    ELSE (IF Head(elems) = <<>> THEN <<>> ELSE <<Head(elems)>>) \o DropEmpty(Tail(elems))

Join(elems) ==
    LET e == DropEmpty(elems)
    IN  IF e = <<>> THEN <<>> ELSE Clean(JoinWith(e, Ch.slash))

RECURSIVE StripTrailingSlashes(_)
StripTrailingSlashes(p) ==
    IF p # <<>> /\ p[Len(p)] = Ch.slash
    THEN StripTrailingSlashes(SubSeq(p, 1, Len(p) - 1))
    ELSE p

\* a Base that keeps the directories of the path
BaseKeepsPath(path) == path

\* filepath.Base: "" gives ".", a path of slashes gives "/"
Base(path) ==
    IF path = <<>> THEN DotStr
    ELSE LET p == StripTrailingSlashes(path)
             q == SubSeq(p, LastIndex(p, Ch.slash) + 1, Len(p))
         IN  IF q = <<>> THEN SlashStr ELSE q

\* filepath.Dir: all but the last element, cleaned
Dir(path) == Clean(SubSeq(path, 1, LastIndex(path, Ch.slash)))

(***************************************************************************)
(* int64 values as strconv and fmt treat them.  A value is a sign and its   *)
(* decimal magnitude (ASCII digits, no leading zero), so that the whole     *)
(* 64-bit range, and the saturation at its ends, is exact.                  *)
(***************************************************************************)
Digits == Ch.zero..Ch.nine

RECURSIVE FormatNat(_)
FormatNat(n) ==
    IF n < 10 THEN <<Ch.zero + n>>
    ELSE FormatNat(n \div 10) \o <<Ch.zero + (n % 10)>>

\* 9223372036854775807 = 1<<63 - 1 and 9223372036854775808 = 1<<63
MaxInt64Mag == <<57,50,50,51,51,55,50,48,51,54,56,53,52,55,55,53,56,48,55>>
CutoffMag == <<57,50,50,51,51,55,50,48,51,54,56,53,52,55,55,53,56,48,56>>

Int64(n) == [neg |-> FALSE, mag |-> FormatNat(n)]

RECURSIVE StripLeadingZeros(_)
StripLeadingZeros(d) ==
    IF Len(d) > 1 /\ d[1] = Ch.zero THEN StripLeadingZeros(Tail(d)) ELSE d

\* a < b for magnitudes without leading zeros
MagLess(a, b) ==
    \/ Len(a) < Len(b)
    \/ /\ Len(a) = Len(b)
       /\ \E i \in 1..Len(a) : a[i] < b[i] /\ \A j \in 1..(i-1) : a[j] = b[j]

\* a < b for int64 values
Int64Less(a, b) ==
    IF a.neg /\ ~b.neg THEN TRUE
    ELSE IF ~a.neg /\ b.neg THEN FALSE
    ELSE IF a.neg THEN MagLess(b.mag, a.mag)
    ELSE MagLess(a.mag, b.mag)

\* fmt's %d
FormatInt(v) == (IF v.neg THEN <<Ch.minus>> ELSE <<>>) \o v.mag

\* strconv.ParseInt(s, 10, 64): the value and the error ("" for nil).  A
\* syntax error gives 0; a value out of range gives the nearest end of the
\* range together with the range error.
ParseInt(s) ==
    LET signed == s # <<>> /\ s[1] \in {Ch.plus, Ch.minus}
        neg == signed /\ s[1] = Ch.minus
        ds == IF signed THEN Tail(s) ELSE s
        mag == StripLeadingZeros(ds)
        zero == [neg |-> FALSE, mag |-> <<Ch.zero>>]
    IN  IF ds = <<>> \/ \E i \in 1..Len(ds) : ds[i] \notin Digits
        THEN [val |-> zero, err |-> "syntax"]
        ELSE IF ~neg /\ ~MagLess(mag, CutoffMag)
        THEN [val |-> [neg |-> FALSE, mag |-> MaxInt64Mag], err |-> "range"]
        ELSE IF neg /\ MagLess(CutoffMag, mag)
        THEN [val |-> [neg |-> TRUE, mag |-> CutoffMag], err |-> "range"]
        ELSE [val |-> [neg |-> neg /\ mag # <<Ch.zero>>, mag |-> mag], err |-> ""]

(***************************************************************************)
(* encoding/base64 URLEncoding (padded).  An encoded string is a sequence   *)
(* of symbols: 0..63 is a position in the alphabet, Pad is '=', and Junk is *)
(* any byte outside the alphabet.                                           *)
(***************************************************************************)
Pad == 64
Junk == 65

RECURSIVE EncodeToString(_)
EncodeToString(b) ==
    IF b = <<>> THEN <<>>
    ELSE LET n == Len(b)
             v == b[1] * 65536 + (IF n > 1 THEN b[2] * 256 ELSE 0) + (IF n > 2 THEN b[3] ELSE 0)
             s1 == v \div 262144
             s2 == (v \div 4096) % 64
             s3 == (v \div 64) % 64
             s4 == v % 64
         IN  IF n = 1 THEN <<s1, s2, Pad, Pad>>
             ELSE IF n = 2 THEN <<s1, s2, s3, Pad>>
             ELSE <<s1, s2, s3, s4>> \o EncodeToString(SubSeq(b, 4, n))

\* the bytes of the first dlen-1 bytes of a quantum of dlen data symbols
QuantumBytes(q, dlen) ==
    LET sym(j) == IF j <= dlen THEN q[j] ELSE 0
        v == sym(1) * 262144 + sym(2) * 4096 + sym(3) * 64 + sym(4)
        all == <<v \div 65536, (v \div 256) % 256, v % 256>>
    IN  SubSeq(all, 1, dlen - 1)

\* decodeQuantum at the front of src: the symbols consumed, the bytes decoded
\* and whether the input is corrupt.  Padding ends the input: "x=" needs a
\* second '=', and anything after the padding is corrupt although the
\* quantum's bytes are delivered.
decodeQuantum(src) ==
    LET n == Len(src)
        isData(j) == j <= n /\ src[j] \in 0..63
        j == IF ~isData(1) THEN 0 ELSE IF ~isData(2) THEN 1
             ELSE IF ~isData(3) THEN 2 ELSE IF ~isData(4) THEN 3 ELSE 4
        bad == [out |-> <<>>, err |-> TRUE, used |-> n]
    IN  IF j = 4 THEN [out |-> QuantumBytes(src, 4), err |-> FALSE, used |-> 4]
        ELSE IF n = j THEN bad
        ELSE IF src[j + 1] # Pad THEN bad
        ELSE IF j < 2 THEN bad
        ELSE IF j = 2 /\ (n < 4 \/ src[4] # Pad) THEN bad
        ELSE [out |-> QuantumBytes(src, j), err |-> n > 4, used |-> 4]

\* DecodeString: the bytes decoded before the error, and the error
RECURSIVE DecodeString(_)
DecodeString(src) ==
    IF src = <<>> THEN [err |-> FALSE, bytes |-> <<>>]
    ELSE LET q == decodeQuantum(src)
         IN  IF q.err THEN [err |-> TRUE, bytes |-> q.out]
             ELSE LET rest == DecodeString(SubSeq(src, q.used + 1, Len(src)))
                  IN  [err |-> rest.err, bytes |-> q.out \o rest.bytes]

(***************************************************************************)
(* crypto/hmac with SHA-256, idealised: a keyed hash of the message bytes   *)
(* whose first SigLen bytes are kept.  Every byte value can occur in it,    *)
(* '|' included, and it is collision-free on the messages of the model, as   *)
(* HMAC-SHA256 is in practice.                                              *)
(***************************************************************************)
RECURSIVE HashFold(_, _, _)
HashFold(h, s, i) ==
    IF s = <<>> THEN h
    ELSE HashFold(((h + Head(s) + 17 * i) ^ 2 + 1) % 45989, Tail(s), i)

\* byte i of the MAC: the key, a separator and the message are absorbed in turn
MacByte(key, msg, i) ==
    HashFold(HashFold(HashFold(443, key, i), <<Ch.pipe>>, i), msg, i) % 256

Mac(key, msg) == [i \in 1..SigLen |-> MacByte(key, msg, i)]

\* a comparison that skips the last byte
hmacEqualButLast(a, b) ==
    Len(a) = Len(b) /\ \A i \in 1..(Len(a) - 1) : a[i] = b[i]

\* hmac.Equal: same length and same bytes
hmacEqual(a, b) == a = b

(***************************************************************************)
(* The file system under the working directory: the directories that exist  *)
(* and the bytes of every regular file.  Paths are cleaned relative paths.  *)
(***************************************************************************)
\* the directory and all its parents, "." excluded
Ancestors(d) ==
    LET comps == Split(d, Ch.slash)
    IN  {JoinWith(SubSeq(comps, 1, k), Ch.slash) : k \in 1..Len(comps)}

IsFile(fs, p) == p \in DOMAIN fs.files
IsDir(fs, p) == p \in fs.dirs

\* os.MkdirAll: creates the directory and its missing parents; fails when a
\* regular file is in the way
MkdirAll(fs, d) ==
    IF \E a \in Ancestors(d) : IsFile(fs, a)
    THEN FsResult(FALSE, fs)
    ELSE FsResult(TRUE, [fs EXCEPT !.dirs = @ \cup Ancestors(d)])

\* a create that opens with O_APPEND and without O_TRUNC: the content goes
\* after what the file holds
CreateAndAppend(fs, p, content) ==
    IF IsDir(fs, p) \/ ~IsDir(fs, Dir(p))
    THEN FsResult(FALSE, fs)
    ELSE FsResult(TRUE, [fs EXCEPT !.files =
                     [q \in DOMAIN fs.files \cup {p} |->
                        IF q # p THEN fs.files[q]
                        ELSE IF IsFile(fs, p) THEN fs.files[p] \o content ELSE content]])

\* os.Create followed by Write: fails on a directory and under a missing
\* parent, otherwise the file holds exactly the content
CreateAndWrite(fs, p, content) ==
    IF IsDir(fs, p) \/ ~IsDir(fs, Dir(p))
    THEN FsResult(FALSE, fs)
    ELSE FsResult(TRUE, [fs EXCEPT !.files =
                     [q \in DOMAIN fs.files \cup {p} |-> IF q = p THEN content ELSE fs.files[q]]])

\* os.Create alone: O_RDWR|O_CREATE|O_TRUNC, the file is there and empty
osCreate(fs, p) == CreateAndWrite(fs, p, <<>>)

\* File.Write on a descriptor just opened: the bytes go to offset 0 of the
\* file as it is now, and what the file holds beyond them stays
fileWrite(fs, p, content) ==
    [fs EXCEPT !.files[p] = content \o SubSeq(@, Len(content) + 1, Len(@))]

DirEmpty(fs, d) ==
    /\ \A q \in DOMAIN fs.files : Dir(q) # d
    /\ \A q \in fs.dirs : q = DotStr \/ Dir(q) # d

\* os.Remove: a file, or a directory that is empty
Remove(fs, p) ==
    IF IsFile(fs, p)
    THEN FsResult(TRUE, [fs EXCEPT !.files = [q \in DOMAIN fs.files \ {p} |-> fs.files[q]]])
    ELSE IF IsDir(fs, p) /\ p # DotStr /\ DirEmpty(fs, p)
    THEN FsResult(TRUE, [fs EXCEPT !.dirs = @ \ {p}])
    ELSE FsResult(FALSE, fs)

\* os.ReadDir, then the names of the entries that are not directories
ReadDirFiles(fs, d) == {Base(q) : q \in {f \in DOMAIN fs.files : Dir(f) = d}}

(***************************************************************************)
(* internal/db: the clients table.  client_id is UNIQUE.                    *)
(***************************************************************************)
\* a lookup by client_id alone
CheckAuthAnyKey(reg, clientID, apiKey) ==
    IF \E u \in reg : u.client_id = clientID
    THEN [origin |-> (CHOOSE u \in reg : u.client_id = clientID).allowed_origin, ok |-> TRUE]
    ELSE [origin |-> "", ok |-> FALSE]

\* a lookup by api_key alone
CheckAuthKeyOnly(reg, clientID, apiKey) ==
    IF \E u \in reg : u.api_key = apiKey
    THEN [origin |-> (CHOOSE u \in reg : u.api_key = apiKey).allowed_origin, ok |-> TRUE]
    ELSE [origin |-> "", ok |-> FALSE]

\* db.CheckAuth: the allowed_origin of the record with this id and key
CheckAuth(reg, clientID, apiKey) ==
    IF \E u \in reg : u.client_id = clientID /\ u.api_key = apiKey
    THEN [origin |-> (CHOOSE u \in reg : u.client_id = clientID /\ u.api_key = apiKey).allowed_origin,
          ok |-> TRUE]
    ELSE [origin |-> "", ok |-> FALSE]

CheckOrigin(reg, clientID) ==
    IF \E u \in reg : u.client_id = clientID
    THEN [origin |-> (CHOOSE u \in reg : u.client_id = clientID).allowed_origin, ok |-> TRUE]
    ELSE [origin |-> "", ok |-> FALSE]

(***************************************************************************)
(* One request and its response.  A request r has the endpoint ep, the      *)
(* method, the query parameters client, filename, q (the token) and resize  *)
(* (width or height given), the x-api-key header key and the body.  The     *)
(* record w threaded through a gate and a handler is the ResponseWriter     *)
(* together with what the handler did:                                      *)
(*   writes    status codes given to WriteHeader / http.Error, in order      *)
(*             (net/http sends the first; a body without one sends 200)     *)
(*   msgs      the texts given to http.Error, in order                      *)
(*   invoked   the operation handler ran                                    *)
(*   panicked  the handler ended in a run-time panic                        *)
(*   path      the storage path the handler derived, fsop the file-system   *)
(*             call made on it, fsok whether that call succeeded            *)
(*   origin, methods   Access-Control-Allow-Origin / -Methods               *)
(*   url       the token of the presigned URL in the body                   *)
(*   listing   the names in the body of a list response                     *)
(*   fs        the file system as the handler leaves it                     *)
(* env is what a handler reads besides the request: the clock, the          *)
(* PRESIGN_SECRET variable and the registry.                                *)
(***************************************************************************)
HttpError(w, msg, code) == [w EXCEPT !.writes = Append(@, code), !.msgs = Append(@, msg)]

WriteHeader(w, code) == [w EXCEPT !.writes = Append(@, code)]

\* the status the client receives
Status(w) == IF w.writes = <<>> THEN (IF w.panicked THEN 0 ELSE 200) ELSE w.writes[1]

PresignTTL == 300

\* saveFile
saveFile(w, dir, filename, content) ==
    LET filePath == Join(<<dir, filename>>)
        c == CreateAndWrite(w.fs, filePath, content)
    IN  [w EXCEPT !.path = filePath, !.fsop = "create", !.fsok = c.ok, !.fs = c.fs]

\* the end of both upload handlers: the error of saveFile, or 201 Created
uploaded(saved) ==
    IF ~saved.fsok THEN HttpError(saved, "Cannot create file", 500)
    ELSE WriteHeader(saved, 201)

\* uploadHandler once os.MkdirAll has returned md
uploadInto(w, r, dir, filename, md) ==
    IF ~md.ok
    THEN HttpError([w EXCEPT !.fsop = "mkdir"], "Cannot create storage dir", 500)
    ELSE uploaded(saveFile([w EXCEPT !.fs = md.fs], dir, filename, r.body))

uploadHandler(w, r, env) ==
    LET client == sanitizeClient(r.client)
        filename == Base(r.filename)
        dir == Join(<<storageRoot, client>>)
    IN  IF client = <<>> \/ filename = <<>>
        THEN HttpError(w, "client and filename required", 400)
        ELSE uploadInto(w, r, dir, filename, MkdirAll(w.fs, dir))

\* downloadHandler once filePath is known: imaging.Open for a resize,
\* otherwise http.ServeFile (the file, a redirect for a directory, or 404)
downloadFile(w, r, filePath) ==
    LET opened == [w EXCEPT !.path = filePath, !.fsop = "read",
                            !.fsok = IsFile(w.fs, filePath) \/ IsDir(w.fs, filePath)]
    IN  IF r.resize
        THEN IF IsFile(w.fs, filePath) THEN opened
             ELSE HttpError([opened EXCEPT !.fsok = FALSE], "Cannot open image", 500)
        ELSE IF IsFile(w.fs, filePath) THEN opened
        ELSE IF IsDir(w.fs, filePath) THEN WriteHeader(opened, 301)
        ELSE HttpError(opened, "404 page not found", 404)

downloadHandler(w, r, env) ==
    LET client == sanitizeClient(r.client)
        filename == Base(r.filename)
    IN  IF client = <<>> \/ filename = <<>>
        THEN HttpError(w, "client and filename required", 400)
        ELSE downloadFile(w, r, Join(<<storageRoot, client, filename>>))

\* deleteHandler once os.Remove has returned rm
deleteFile(w, filePath, rm) ==
    LET done == [w EXCEPT !.path = filePath, !.fsop = "remove", !.fsok = rm.ok, !.fs = rm.fs]
    IN  IF ~rm.ok THEN HttpError(done, "Delete failed", 500)
        ELSE done

deleteHandler(w, r, env) ==
    LET client == sanitizeClient(r.client)
        filename == Base(r.filename)
        filePath == Join(<<storageRoot, client, filename>>)
    IN  IF client = <<>> \/ filename = <<>>
        THEN HttpError(w, "client and filename required", 400)
        ELSE deleteFile(w, filePath, Remove(w.fs, filePath))

listHandler(w, r, env) ==
    LET client == sanitizeClient(r.client)
        dir == Join(<<storageRoot, client>>)
        rd == [w EXCEPT !.path = dir, !.fsop = "readdir", !.fsok = IsDir(w.fs, dir)]
    IN  IF client = <<>> THEN HttpError(w, "client required", 400)
        ELSE IF ~IsDir(w.fs, dir) THEN HttpError(rd, "Cannot read dir", 500)
        ELSE [rd EXCEPT !.listing = ReadDirFiles(w.fs, dir)]

\* the payload "path|expires|sig" of a presign token
Payload(filePath, expires, sig) == filePath \o <<Ch.pipe>> \o expires \o <<Ch.pipe>> \o sig

\* a signed message that leaves the path out
SignedMessageExpiryOnly(filePath, expiresAt) == FormatInt(expiresAt)

\* the signed message "path|expires"
SignedMessage(filePath, expiresAt) == filePath \o <<Ch.pipe>> \o FormatInt(expiresAt)

\* presignHandler once filePath and expiresAt are known
presignURL(w, env, filePath, expiresAt) ==
    [w EXCEPT !.path = filePath,
              !.url = EncodeToString(Payload(filePath, FormatInt(expiresAt),
                          Mac(env.secret, SignedMessage(filePath, expiresAt))))]

presignHandler(w, r, env) ==
    LET client == sanitizeClient(r.client)
        filename == Base(r.filename)
        dir == Join(<<storageRoot, client>>)
    IN  IF client = <<>> \/ filename = <<>>
        THEN HttpError(w, "client and filename required", 400)
        ELSE presignURL(w, env, Join(<<dir, filename>>), Int64(env.now + PresignTTL))

\* time.Now().Unix() > expiresAt
Expired(now, expiresAt) == Int64Less(expiresAt, Int64(now))

\* a verifier that honours a token once: it refuses when the file is there
presignedVerifyOnce(w, r, env, filePath, expiresAt, sigString) ==
    IF Expired(env.now, expiresAt) THEN HttpError(w, "URL expired", 401)
    ELSE IF ~hmacEqual(Mac(env.secret, SignedMessage(filePath, expiresAt)), sigString)
    THEN HttpError(w, "Invalid signature", 401)
    ELSE IF IsFile(w.fs, Clean(filePath)) THEN HttpError(w, "URL already used", 401)
    ELSE uploaded(saveFile(w, Dir(filePath), Base(filePath), r.body))

\* a verifier that saves the body first and checks the token afterwards
presignedVerifySaveFirst(w, r, env, filePath, expiresAt, sigString) ==
    IF Expired(env.now, expiresAt)
    THEN HttpError(saveFile(w, Dir(filePath), Base(filePath), r.body), "URL expired", 401)
    ELSE IF ~hmacEqual(Mac(env.secret, SignedMessage(filePath, expiresAt)), sigString)
    THEN HttpError(saveFile(w, Dir(filePath), Base(filePath), r.body), "Invalid signature", 401)
    ELSE uploaded(saveFile(w, Dir(filePath), Base(filePath), r.body))

\* presignedUploadHandler from the expiry check on
presignedVerify(w, r, env, filePath, expiresAt, sigString) ==
    IF Expired(env.now, expiresAt) THEN HttpError(w, "URL expired", 401)
    ELSE IF ~hmacEqual(Mac(env.secret, SignedMessage(filePath, expiresAt)), sigString)
    THEN HttpError(w, "Invalid signature", 401)
    ELSE uploaded(saveFile(w, Dir(filePath), Base(filePath), r.body))

\* presignedUploadHandler once the payload is split: parts[1], parts[2] of a
\* slice shorter than three is an index out of range, and the error of
\* ParseInt is dropped
presignedParts(w, r, env, parts) ==
    IF Len(parts) < 3 THEN [w EXCEPT !.panicked = TRUE]
    ELSE presignedVerify(w, r, env, parts[1], ParseInt(parts[2]).val, parts[3])

\* presignedUploadHandler once q is decoded: a decoding error is reported
\* and the handler carries on with the bytes decoded so far
presignedDecoded(w, r, env, q) ==
    presignedParts(IF q.err THEN HttpError(w, "Could not decode q", 400) ELSE w,
                   r, env, Split(q.bytes, Ch.pipe))

presignedUploadHandler(w, r, env) == presignedDecoded(w, r, env, DecodeString(r.q))

(***************************************************************************)
(* main: the routes, each behind its middleware.  A middleware returns the  *)
(* response it wrote and marks it invoked when it calls next.ServeHTTP;      *)
(* Handler is that call.                                                    *)
(***************************************************************************)
AuthRoutes == {"upload", "delete", "list", "presignurl"}
PublicRoutes == {"download", "presignedupload"}

Handler(w, r, env) ==
    IF ~w.invoked THEN w
    ELSE CASE r.ep = "upload" -> uploadHandler(w, r, env)
           [] r.ep = "delete" -> deleteHandler(w, r, env)
           [] r.ep = "list" -> listHandler(w, r, env)
           [] r.ep = "presignurl" -> presignHandler(w, r, env)
           [] r.ep = "download" -> downloadHandler(w, r, env)
           [] r.ep = "presignedupload" -> presignedUploadHandler(w, r, env)

\* a gate without the OPTIONS branch
withAuthAndCORSNoPreflight(w, r, env) ==
    LET clientID == sanitizeClient(r.client)
        auth == CheckAuth(env.reg, clientID, r.key)
        cors == [w EXCEPT !.origin = auth.origin, !.methods = "GET, POST, DELETE, OPTIONS"]
    IN  IF clientID = <<>> \/ r.key = ""
        THEN HttpError(w, "Missing client or API key", 401)
        ELSE IF ~auth.ok THEN HttpError(w, "Unauthorized", 401)
        ELSE [cors EXCEPT !.invoked = TRUE]

withAuthAndCORS(w, r, env) ==
    LET clientID == sanitizeClient(r.client)
        auth == CheckAuth(env.reg, clientID, r.key)
        cors == [w EXCEPT !.origin = auth.origin, !.methods = "GET, POST, DELETE, OPTIONS"]
    IN  IF clientID = <<>> \/ r.key = ""
        THEN HttpError(w, "Missing client or API key", 401)
        ELSE IF ~auth.ok THEN HttpError(w, "Unauthorized", 401)
        ELSE IF r.method = "OPTIONS" THEN WriteHeader(cors, 204)
        ELSE [cors EXCEPT !.invoked = TRUE]

withPublicCORS(w, r, env) ==
    LET cors == [w EXCEPT !.origin = "*", !.methods = "GET, PUT, OPTIONS"]
    IN  IF r.method = "OPTIONS" THEN WriteHeader(cors, 204)
        ELSE [cors EXCEPT !.invoked = TRUE]

ServeHTTP(r, fs, env) ==
    Handler(IF r.ep \in AuthRoutes THEN withAuthAndCORS(NewResponse(fs), r, env)
            ELSE withPublicCORS(NewResponse(fs), r, env),
            r, env)

(***************************************************************************)
(* The system: the registry (clients table), the file system, the clock,    *)
(* the PRESIGN_SECRET of the process, the presigned URL last handed to a     *)
(* caller, and the request in flight with its response.                     *)
(***************************************************************************)
VARIABLES registry, fs, now, secret, held, last, saving

vars == <<registry, fs, now, secret, held, last, saving>>

\* "a", "b" and the records the cli adds for them
ClientA == <<97>>
ClientB == <<98>>
Users ==
    { User(ClientA, "k1", "https://a.example"), User(ClientB, "k2", "https://b.example") }

\* request inputs: client "", "a", "/b"; filename "", "..", "../g";
\* x-api-key absent, "k1", "k2"
ClientParams == {<<>>, ClientA, <<Ch.slash>> \o ClientB}
FilenameParams == {<<>>, DotDotStr, <<Ch.dot, Ch.dot, Ch.slash, 103>>}
Keys == {"", "k1", "k2"}
Bodies == {<<1, 1>>, <<2, 2>>}
Secrets == {<<115>>}

\* the instants the clock is observed at: the start, and from the end of the
\* first validity window on
Instants == {t \in 0..MaxNow : t = 0 \/ t >= PresignTTL}

MethodOf(ep) ==
    CASE ep \in {"upload", "presignedupload"} -> "POST"
      [] ep = "delete" -> "DELETE"
      [] OTHER -> "GET"

Idle == Exchange(Request("none", "", <<>>, <<>>, "", <<>>, <<>>, FALSE),
                 NewResponse(FileSystem({}, <<>>)), FileSystem({}, <<>>))

(***************************************************************************)
(* What a holder of a presigned URL can present: the token itself, and the  *)
(* tokens made from its fields and from guesses.                            *)
(***************************************************************************)
\* bit k of byte b inverted
FlipBit(b, k) ==
    LET p == 2 ^ k
    IN  IF (b \div p) % 2 = 1 THEN b - p ELSE b + p

\* the fields of an issued token: the signature is its last SigLen bytes
TokenOf(front, sig) ==
    LET k == LastIndex(front, Ch.pipe)
    IN  [path |-> SubSeq(front, 1, k - 1),
         expires |-> SubSeq(front, k + 1, Len(front)),
         sig |-> sig]

SplitToken(payload) ==
    TokenOf(SubSeq(payload, 1, Len(payload) - SigLen - 1),
            SubSeq(payload, Len(payload) - SigLen + 1, Len(payload)))

TokenFields(url) == SplitToken(DecodeString(url).bytes)

ClientPaths == {Join(<<storageRoot, c, <<103>>>>) : c \in {ClientA, ClientB}}

FlippedSigs(sig) ==
    {[sig EXCEPT ![i] = FlipBit(@, k)] : i \in 1..SigLen, k \in 0..7}

ForgedExpiries(expires) ==
    {<<>>, <<120>>, CutoffMag, <<Ch.plus>> \o expires, FormatNat(MaxNow + PresignTTL + 1)}

GuessedTokens ==
    {<<>>, <<Junk>>} \cup
    {EncodeToString(Payload(p, FormatNat(MaxNow + PresignTTL), [i \in 1..SigLen |-> 0])) :
        p \in ClientPaths}

\* the tokens made from the held token url with the fields t
Variants(url, t) ==
    {url, url \o <<Junk>>}
    \cup {EncodeToString(Payload(t.path, t.expires, s)) : s \in FlippedSigs(t.sig)}
    \cup {EncodeToString(Payload(p, t.expires, t.sig)) : p \in ClientPaths}
    \cup {EncodeToString(Payload(t.path, e, t.sig)) : e \in ForgedExpiries(t.expires)}
    \cup {EncodeToString(t.path),
          EncodeToString(t.path \o <<Ch.pipe>> \o t.expires),
          EncodeToString(Payload(t.path, t.expires, t.sig) \o <<Ch.pipe, 120>>)}

Presentable(url) ==
    IF url = <<>> THEN GuessedTokens
    ELSE GuessedTokens \cup Variants(url, TokenFields(url))

(***************************************************************************)
(* Actions.                                                                 *)
(***************************************************************************)
Init ==
    /\ registry = {}
    /\ fs = FileSystem({DotStr, Clean(storageRoot)}, <<>>)
    /\ now = 0
    /\ secret \in Secrets
    /\ held = <<>>
    /\ last = Idle
    /\ saving = <<>>

\* cli add: INSERT fails on a client_id that exists
AddUser ==
    /\ last = Idle
    /\ \E u \in Users :
         registry' = IF \E v \in registry : v.client_id = u.client_id
                     THEN registry ELSE registry \cup {u}
    /\ UNCHANGED <<fs, now, secret, held, last, saving>>

\* a delete that also removes the client's blobs
DeleteUserAndBlobs ==
    /\ last = Idle
    /\ \E c \in {ClientA, ClientB} :
         /\ registry' = {v \in registry : v.client_id # c}
         /\ fs' = [fs EXCEPT !.files =
                     [q \in {f \in DOMAIN fs.files : Dir(f) # Join(<<storageRoot, c>>)} |-> fs.files[q]]]
    /\ UNCHANGED <<now, secret, held, last, saving>>

\* cli delete
DeleteUser ==
    /\ last = Idle
    /\ \E c \in {ClientA, ClientB} :
         registry' = {v \in registry : v.client_id # c}
    /\ UNCHANGED <<fs, now, secret, held, last, saving>>

Tick ==
    /\ last = Idle
    /\ \E t \in Instants : t > now /\ now' = t
    /\ UNCHANGED <<registry, fs, secret, held, last, saving>>

\* the response w to the request r is complete
Respond(r, w) ==
    /\ fs' = w.fs
    /\ held' = IF w.url # <<>> THEN w.url ELSE held
    /\ last' = Exchange(r, w, fs)
    /\ UNCHANGED <<registry, now, secret, saving>>

\* the server handles request r
Serve(r) == Respond(r, ServeHTTP(r, fs, Environment(now, secret, registry)))

Methods(ep) == {MethodOf(ep), "OPTIONS"}

Upload ==
    /\ last = Idle
    /\ \E m \in Methods("upload"), c \in ClientParams, f \in FilenameParams, k \in Keys, b \in Bodies :
         Serve(Request("upload", m, c, f, k, b, <<>>, FALSE))

Delete ==
    /\ last = Idle
    /\ \E m \in Methods("delete"), c \in ClientParams, f \in FilenameParams, k \in Keys :
         Serve(Request("delete", m, c, f, k, <<>>, <<>>, FALSE))

List ==
    /\ last = Idle
    /\ \E m \in Methods("list"), c \in ClientParams, k \in Keys :
         Serve(Request("list", m, c, <<>>, k, <<>>, <<>>, FALSE))

Presign ==
    /\ last = Idle
    /\ \E m \in Methods("presignurl"), c \in ClientParams, f \in FilenameParams, k \in Keys :
         Serve(Request("presignurl", m, c, f, k, <<>>, <<>>, FALSE))

Download ==
    /\ last = Idle
    /\ \E m \in Methods("download"), c \in ClientParams, f \in FilenameParams, z \in BOOLEAN :
         Serve(Request("download", m, c, f, "", <<>>, <<>>, z))

PresignedUpload ==
    /\ last = Idle
    /\ \E m \in Methods("presignedupload"), q \in Presentable(held), b \in Bodies :
         Serve(Request("presignedupload", m, <<>>, <<>>, "", b, q, FALSE))

\* the response is sent and the request is over
Finish ==
    /\ last # Idle
    /\ last' = Idle
    /\ UNCHANGED <<registry, fs, now, secret, held, saving>>

Next ==
    \/ AddUser
    \/ DeleteUser
    \/ Tick
    \/ Upload
    \/ Delete
    \/ List
    \/ Presign
    \/ Download
    \/ PresignedUpload
    \/ Finish

Spec == Init /\ [][Next]_vars

(***************************************************************************)
(* The two halves of the server, each small enough to explore exhaustively. *)
(* SpecStore: the registry, the gates and the blob operations, with presign *)
(* URLs issued but never consumed and the clock at rest.  SpecPresign: the  *)
(* presign protocol, issue and consumption over time, started with both     *)
(* clients registered and client a's directory in place.                    *)
(***************************************************************************)
NextStore ==
    \/ AddUser
    \/ DeleteUser
    \/ Upload
    \/ Delete
    \/ List
    \/ Presign
    \/ Download
    \/ Finish

SpecStore == Init /\ [][NextStore]_vars

InitPresign ==
    /\ registry = Users
    /\ fs = FileSystem({DotStr, Clean(storageRoot), Join(<<storageRoot, ClientA>>)}, <<>>)
    /\ now = 0
    /\ secret \in Secrets
    /\ held = <<>>
    /\ last = Idle
    /\ saving = <<>>

NextPresign ==
    \/ Tick
    \/ Presign
    \/ PresignedUpload
    \/ Finish

SpecPresign == InitPresign /\ [][NextPresign]_vars

\* the presign protocol of a process started without PRESIGN_SECRET:
\* os.Getenv gives the empty string
InitUnset ==
    /\ registry = Users
    /\ fs = FileSystem({DotStr, Clean(storageRoot), Join(<<storageRoot, ClientA>>)}, <<>>)
    /\ now = 0
    /\ secret = <<>>
    /\ held = <<>>
    /\ last = Idle
    /\ saving = <<>>

SpecUnset == InitUnset /\ [][NextPresign]_vars

(***************************************************************************)
(* Replay.  The holder of a presigned URL presents it again and again, as   *)
(* issued, with an undecodable tail, and with the path replaced, while the  *)
(* clock advances and the operator deletes clients.                         *)
(***************************************************************************)
Replays(url, t) ==
    {url, url \o <<Junk>>}
    \cup {EncodeToString(Payload(p, t.expires, t.sig)) : p \in ClientPaths}

Redeem ==
    /\ last = Idle
    /\ held # <<>>
    /\ \E q \in Replays(held, TokenFields(held)), b \in Bodies :
         Serve(Request("presignedupload", "POST", <<>>, <<>>, "", b, q, FALSE))

NextReplay ==
    \/ DeleteUser
    \/ Tick
    \/ Presign
    \/ Redeem
    \/ Finish

SpecReplay == InitPresign /\ [][NextReplay]_vars

(***************************************************************************)
(* The blob operations of one client: uploads, deletes and listings of      *)
(* client a over several names, with its key, another client's key, and     *)
(* none.                                                                    *)
(***************************************************************************)
\* "", "..", "../g", "h", "x/i"
BlobNames == FilenameParams \cup {<<104>>, <<120, Ch.slash, 105>>}

InitBlob ==
    /\ registry = Users
    /\ fs = FileSystem({DotStr, Clean(storageRoot)}, <<>>)
    /\ now = 0
    /\ secret \in Secrets
    /\ held = <<>>
    /\ last = Idle
    /\ saving = <<>>

UploadBlob ==
    /\ last = Idle
    /\ \E f \in BlobNames, k \in Keys, b \in Bodies :
         Serve(Request("upload", "POST", ClientA, f, k, b, <<>>, FALSE))

DeleteBlob ==
    /\ last = Idle
    /\ \E f \in BlobNames, k \in Keys :
         Serve(Request("delete", "DELETE", ClientA, f, k, <<>>, <<>>, FALSE))

ListBlobs ==
    /\ last = Idle
    /\ \E k \in Keys :
         Serve(Request("list", "GET", ClientA, <<>>, k, <<>>, <<>>, FALSE))

NextBlob ==
    \/ UploadBlob
    \/ DeleteBlob
    \/ ListBlobs
    \/ Finish

SpecBlob == InitBlob /\ [][NextBlob]_vars

(***************************************************************************)
(* Uploads in parallel.  net/http runs each request in its own goroutine,   *)
(* so the calls of saveFile interleave: os.Create and File.Write of one     *)
(* upload are two steps, and steps of other uploads may fall between them.  *)
(* saving[p] is the call of saveFile of upload p.                           *)
(***************************************************************************)
\* bodies of different lengths
RaceBodies == {<<1>>, <<2, 2>>, <<3, 3, 3>>}

RaceRequest(b) == Request("upload", "POST", ClientA, <<103>>, "k1", b, <<>>, FALSE)

InitRace ==
    /\ registry = Users
    /\ fs = FileSystem({DotStr, Clean(storageRoot)}, <<>>)
    /\ now = 0
    /\ secret \in Secrets
    /\ held = <<>>
    /\ last = Idle
    /\ saving = [p \in 1..MaxUploads |-> SaveCall("idle", <<>>, <<>>)]

\* upload p has passed the gate and the checks of uploadHandler, the
\* directory is made and saveFile is entered with the path w.path
EnterSaveFile(p, r, w) ==
    /\ w.fsop = "create"
    /\ fs' = [fs EXCEPT !.dirs = w.fs.dirs]
    /\ saving' = [saving EXCEPT ![p] = SaveCall("create", w.path, r.body)]
    /\ UNCHANGED <<registry, now, secret, held, last>>

BeginUpload ==
    \E p \in DOMAIN saving :
        /\ saving[p].pc = "idle"
        /\ \E b \in RaceBodies :
             EnterSaveFile(p, RaceRequest(b),
                           ServeHTTP(RaceRequest(b), fs, Environment(now, secret, registry)))

\* out, err := os.Create(filePath)
CreateStep ==
    \E p \in DOMAIN saving :
        /\ saving[p].pc = "create"
        /\ fs' = osCreate(fs, saving[p].path).fs
        /\ saving' = [saving EXCEPT ![p].pc =
                         IF osCreate(fs, saving[p].path).ok THEN "write" ELSE "failed"]
        /\ UNCHANGED <<registry, now, secret, held, last>>

\* out.Write(content), then the deferred Close
WriteStep ==
    \E p \in DOMAIN saving :
        /\ saving[p].pc = "write"
        /\ fs' = fileWrite(fs, saving[p].path, saving[p].content)
        /\ saving' = [saving EXCEPT ![p].pc = "done"]
        /\ UNCHANGED <<registry, now, secret, held, last>>

NextRace ==
    \/ BeginUpload
    \/ CreateStep
    \/ WriteStep

SpecRace == InitRace /\ [][NextRace]_vars

(***************************************************************************)
(* Properties.  They speak of the exchange in `last`: the request as it     *)
(* arrived, the response, and the file system before (last.before) and      *)
(* after (fs) the handler.                                                  *)
(***************************************************************************)
Served(eps) == last.r.ep \in eps
Handled(eps) == Served(eps) /\ last.r.method # "OPTIONS"
NothingWritten == fs = last.before
Rejected(code, msg) == Status(last.w) = code /\ last.w.msgs = <<msg>>
Registered(client) == \E u \in registry : u.client_id = sanitizeClient(client)
Authentic(client, key) ==
    \E u \in registry : u.client_id = sanitizeClient(client) /\ u.api_key = key /\ key # ""

\* the client's own directory storageRoot/<sanitized client>
ClientDir(client) == Join(<<storageRoot, sanitizeClient(client)>>)

\* the decoded token of the request and its '|'-separated fields
TokenBytes == DecodeString(last.r.q)
TokenParts == Split(TokenBytes.bytes, Ch.pipe)

\* the token of the request as path, expiry and a signature of full length
WellFormed(q) ==
    LET d == DecodeString(q)
    IN  /\ ~d.err
        /\ Len(d.bytes) >= SigLen + 2
        /\ d.bytes[Len(d.bytes) - SigLen] = Ch.pipe
        /\ Contains(SubSeq(d.bytes, 1, Len(d.bytes) - SigLen - 1), Ch.pipe)

\* the MAC of the token's own path and expiry fields
OwnMac(t) == Mac(secret, t.path \o <<Ch.pipe>> \o t.expires)

\* the expiry field is a plain decimal timestamp
PlainExpiry(t) == ParseInt(t.expires).err = "" /\ FormatInt(ParseInt(t.expires).val) = t.expires

Before(t) == Int64Less(Int64(now), ParseInt(t.expires).val)
After(t) == Int64Less(ParseInt(t.expires).val, Int64(now))

\* two byte strings of the same length that differ in exactly one bit
OneBitApart(a, b) ==
    /\ Len(a) = Len(b)
    /\ \E i \in 1..Len(a) :
         /\ \E k \in 0..7 : a[i] = FlipBit(b[i], k)
         /\ \A j \in 1..Len(a) : j # i => a[j] = b[j]

\* C1: the path upload, download, delete and presign-issue derive from
\* (client, filename) names a file directly inside the client's own directory
C1_PathInsideClientDir ==
    (/\ Handled({"upload", "download", "delete", "presignurl"})
     /\ last.w.invoked
     /\ last.w.path # <<>>)
    => Dir(last.w.path) = ClientDir(last.r.client)

\* C2: the token presignHandler issued, presented unmodified before its
\* expiry, passes decoding, the expiry check and the signature check
C2_IssuedTokenVerifies ==
    (/\ Handled({"presignedupload"})
     /\ held # <<>>
     /\ last.r.q = held
     /\ Before(TokenFields(held)))
    => /\ ~last.w.panicked
       /\ \A i \in 1..Len(last.w.msgs) :
            last.w.msgs[i] \notin {"Could not decode q", "URL expired", "Invalid signature"}

\* C3: a correctly signed token presented at or after its expiry E is
\* rejected with Expired (401) and nothing is written
C3_ExpiredAtOrAfterExpiry ==
    (/\ Handled({"presignedupload"})
     /\ WellFormed(last.r.q)
     /\ PlainExpiry(TokenFields(last.r.q))
     /\ TokenFields(last.r.q).sig = OwnMac(TokenFields(last.r.q))
     /\ ~Before(TokenFields(last.r.q)))
    => Rejected(401, "URL expired") /\ NothingWritten

\* C4: an unexpired token whose signature differs in one bit from the MAC of
\* its own path|expiry is rejected with InvalidSignature (401), nothing written
C4_BitFlipRejected ==
    (/\ Handled({"presignedupload"})
     /\ WellFormed(last.r.q)
     /\ PlainExpiry(TokenFields(last.r.q))
     /\ Before(TokenFields(last.r.q))
     /\ OneBitApart(TokenFields(last.r.q).sig, OwnMac(TokenFields(last.r.q))))
    => Rejected(401, "Invalid signature") /\ NothingWritten

C4_Witness ==
    /\ Handled({"presignedupload"})
    /\ WellFormed(last.r.q)
    /\ PlainExpiry(TokenFields(last.r.q))
    /\ Before(TokenFields(last.r.q))
    /\ OneBitApart(TokenFields(last.r.q).sig, OwnMac(TokenFields(last.r.q)))
    /\ Contains(TokenFields(last.r.q).sig, Ch.pipe)
    /\ IsDir(fs, Dir(TokenFields(last.r.q).path))
    /\ Rejected(401, "Invalid signature")

\* the request presents the held token with only its path field replaced
PathReplaced ==
    /\ Handled({"presignedupload"})
    /\ held # <<>>
    /\ WellFormed(last.r.q)
    /\ TokenFields(last.r.q).expires = TokenFields(held).expires
    /\ TokenFields(last.r.q).sig = TokenFields(held).sig
    /\ TokenFields(last.r.q).path # TokenFields(held).path
    /\ ~Contains(TokenFields(last.r.q).path, Ch.pipe)

\* every path presignedUploadHandler writes is the path of the issued token
WritesOnlyIssuedPath ==
    (Handled({"presignedupload"}) /\ last.w.fsop = "create" /\ last.w.fsok)
    => held # <<>> /\ last.w.path = TokenFields(held).path

\* C5 as stated: a token re-presented with its path replaced by another
\* client's path is rejected with InvalidSignature
C5_PathSwapInvalidSignature ==
    (PathReplaced => Rejected(401, "Invalid signature") /\ NothingWritten)
    /\ WritesOnlyIssuedPath

\* C5 amended: a token re-presented with its path replaced is rejected with
\* 401 and writes nothing, with InvalidSignature up to its expiry and with
\* Expired after it; every path written is the path of the issued token
C5_PathSwapRejected ==
    /\ PathReplaced =>
         /\ NothingWritten
         /\ IF After(TokenFields(held)) THEN Rejected(401, "URL expired")
            ELSE Rejected(401, "Invalid signature")
    /\ WritesOnlyIssuedPath

C5_Witness ==
    /\ PathReplaced
    /\ ~After(TokenFields(held))
    /\ IsDir(fs, Dir(TokenFields(last.r.q).path))
    /\ Rejected(401, "Invalid signature")

\* C6: a request to upload, delete, list or presign-issue whose client has no
\* registry record, or whose key is missing or not the registered one, gets
\* 401 and the handler is not invoked: no blob changes, no token is issued
C6_AuthGateRejects ==
    (Served(AuthRoutes) /\ ~Authentic(last.r.client, last.r.key))
    => /\ Status(last.w) = 401
       /\ ~last.w.invoked
       /\ NothingWritten
       /\ last.w.url = <<>>

C6_Witness ==
    /\ Handled({"upload"})
    /\ Registered(last.r.client)
    /\ last.r.key # ""
    /\ ~Authentic(last.r.client, last.r.key)
    /\ Status(last.w) = 401

\* C7: an OPTIONS request to an Auth-Gate route never invokes the handler,
\* whatever the key: nothing is written, deleted, listed or issued
C7_PreflightNeverInvokes ==
    (Served(AuthRoutes) /\ last.r.method = "OPTIONS")
    => /\ ~last.w.invoked
       /\ NothingWritten
       /\ last.w.url = <<>>
       /\ last.w.listing = {}
       /\ last.w.fsop = "none"

C7_Witness ==
    /\ Served(AuthRoutes)
    /\ last.r.method = "OPTIONS"
    /\ Authentic(last.r.client, last.r.key)
    /\ Status(last.w) = 204

\* C8: a download or presigned-upload request whose client is not in the
\* registry fails with Unauthorized and the handler is not invoked
C8_OriginGateRejectsUnknown ==
    (Handled(PublicRoutes) /\ ~Registered(last.r.client))
    => Status(last.w) = 401 /\ ~last.w.invoked

\* C9: a token whose payload is not exactly three '|'-separated fields fails
\* with MalformedToken (400), without a crash and without a write
C9_FieldCountMalformed ==
    (Handled({"presignedupload"}) /\ ~TokenBytes.err /\ Len(TokenParts) # 3)
    => /\ Status(last.w) = 400
       /\ ~last.w.panicked
       /\ NothingWritten

\* C10: a token whose expiry field does not parse as a 64-bit integer fails
\* with MalformedToken (400), not Expired or InvalidSignature; nothing written
C10_ExpiryUnparseableMalformed ==
    (/\ Handled({"presignedupload"})
     /\ ~TokenBytes.err
     /\ Len(TokenParts) = 3
     /\ ParseInt(TokenParts[2]).err # "")
    => Status(last.w) = 400 /\ NothingWritten

\* the request presents a correctly signed token for the blob g of a client,
\* whose signature and path hold no '|', strictly before its expiry
ValidTokenPresented ==
    /\ Handled({"presignedupload"})
    /\ WellFormed(last.r.q)
    /\ PlainExpiry(TokenFields(last.r.q))
    /\ TokenFields(last.r.q).sig = OwnMac(TokenFields(last.r.q))
    /\ ~TokenBytes.err
    /\ Len(TokenParts) = 3
    /\ TokenFields(last.r.q).path \in ClientPaths
    /\ Before(TokenFields(last.r.q))

\* C11: consuming a valid, unexpired token stores the body at the token's
\* path and answers 201, also when the client's directory does not exist yet
C11_ConsumeCreatesParents ==
    ValidTokenPresented
    => /\ Status(last.w) = 201
       /\ IsFile(fs, TokenFields(last.r.q).path)
       /\ fs.files[TokenFields(last.r.q).path] = last.r.body

\* C12: a step that deletes a client from the registry leaves the file system
\* as it is, and while a client has no record CheckAuth with any key and
\* CheckOrigin fail for it
C12_DeleteKeepsBlobs ==
    [][/\ (registry' # registry /\ registry' \subseteq registry) => fs' = fs
       /\ \A c \in {ClientA, ClientB} :
            (\A u \in registry' : u.client_id # c)
            => /\ \A k \in Keys : ~CheckAuth(registry', c, k).ok
               /\ ~CheckOrigin(registry', c).ok]_vars

C12_Witness ==
    /\ Handled({"download"})
    /\ ~Registered(last.r.client)
    /\ IsFile(fs, last.w.path)
    /\ Dir(last.w.path) = ClientDir(last.r.client)
    /\ Status(last.w) = 200

\* the allowed_origin registered for the client of the request
RegisteredOrigin(client) ==
    {u.allowed_origin : u \in {v \in registry : v.client_id = sanitizeClient(client)}}

\* C13: every response of the Origin Gate carries the allowed_origin
\* registered for the request's client, never "*", and allows GET and OPTIONS
C13_PublicOriginRegistered ==
    (Served(PublicRoutes) /\ Registered(last.r.client))
    => /\ last.w.origin \in RegisteredOrigin(last.r.client)
       /\ last.w.origin # "*"
       /\ last.w.methods = "GET, OPTIONS"

\* C14: an upload, delete or presign-issue request that passes the Auth Gate
\* with an empty filename is answered 400, changes nothing and issues no token
C14_EmptyFilenameRejected ==
    (/\ Handled({"upload", "delete", "presignurl"})
     /\ last.w.invoked
     /\ last.r.filename = <<>>)
    => /\ Status(last.w) = 400
       /\ NothingWritten
       /\ last.w.url = <<>>

\* C15: every response of the Auth Gate, the 401 responses and the preflight
\* responses included, carries the CORS headers
C15_AuthGateHeadersFirst ==
    Served(AuthRoutes)
    => /\ last.w.methods = "GET, POST, DELETE, OPTIONS"
       /\ Registered(last.r.client) => last.w.origin \in RegisteredOrigin(last.r.client)

\* the uploads that have stored to the file f
Stored(f) == {p \in DOMAIN saving : saving[p].pc = "done" /\ saving[p].path = f}

\* C16: once all uploads running in parallel have completed, each stored
\* blob is exactly the body of one of the uploads to it
C16_LastWriterWins ==
    (\A p \in DOMAIN saving : saving[p].pc \in {"idle", "done"})
    => \A f \in DOMAIN fs.files :
         Stored(f) # {} => \E p \in Stored(f) : fs.files[f] = saving[p].content

\* C17: with no signing secret configured no presign token is issued and no
\* presigned upload is written
C17_NoSecretNoPresign ==
    secret = <<>>
    => /\ held = <<>>
       /\ last.w.url = <<>>
       /\ ~(Handled({"presignedupload"}) /\ last.w.fsop = "create" /\ last.w.fsok)

\* C18: an error response ends its request: it is the only status and the
\* only error written, the handler does not go on to crash, and after the
\* 400 of a token that fails to decode no file-system call is made
C18_ErrorsTerminal ==
    last.w.msgs # <<>>
    => /\ Len(last.w.msgs) = 1
       /\ Len(last.w.writes) = 1
       /\ ~last.w.panicked
       /\ last.w.msgs[1] = "Could not decode q" => (last.w.fsop = "none" /\ NothingWritten)

\* the outcome of the checks of presignedUploadHandler in the response w:
\* the errors written before saveFile, a crash, and whether saveFile was
\* reached
Fault(m) == m # "Cannot create file"
Checks(w) == <<SelectSeq(w.msgs, Fault), w.panicked, w.fsop = "create">>

\* the same request answered by a process with the same secret at the same
\* instant that has an empty registry, an empty disk and no history
Afresh(r) ==
    presignedUploadHandler(NewResponse(FileSystem({}, <<>>)), r, Environment(now, secret, {}))

\* C19: the checks of presignedUploadHandler give the same outcome whatever
\* requests came before and whatever the registry and the disk hold; a token
\* that passes them is written on every presentation where its directory
\* exists and its path is not a directory, the body replacing what the file
\* held, also when the issuing client is gone
C19_PresignStateless ==
    Handled({"presignedupload"})
    => /\ Checks(last.w) = Checks(Afresh(last.r))
       /\ (/\ last.w.fsop = "create"
           /\ IsDir(last.before, Dir(last.w.path))
           /\ ~IsDir(last.before, last.w.path))
          => /\ last.w.fsok
             /\ last.w.writes[Len(last.w.writes)] = 201
             /\ IsFile(fs, last.w.path)
             /\ fs.files[last.w.path] = last.r.body

C19_Witness ==
    /\ Handled({"presignedupload"})
    /\ last.r.q = held
    /\ registry = {}
    /\ IsFile(last.before, last.w.path)
    /\ last.before.files[last.w.path] # last.r.body
    /\ last.w.writes = <<201>>
    /\ fs.files[last.w.path] = last.r.body

\* the blob (client, name) is the file of that name in the client's directory
BlobPath(client, name) == Join(<<storageRoot, sanitizeClient(client), Base(name)>>)

\* the exchange x is an operation of the given endpoint that succeeded
Succeeded(x, ep, code) ==
    /\ x.r.ep = ep
    /\ x.r.method # "OPTIONS"
    /\ x.w.invoked
    /\ ~x.w.panicked
    /\ x.w.msgs = <<>>
    /\ Status(x.w) = code

\* the files g after the files f with the file p set to content
PutBlob(f, g, p, content) ==
    /\ DOMAIN g = DOMAIN f \cup {p}
    /\ g[p] = content
    /\ \A q \in DOMAIN f \ {p} : g[q] = f[q]

\* the files g after the files f without p
DropBlob(f, g, p) ==
    /\ DOMAIN g = DOMAIN f \ {p}
    /\ \A q \in DOMAIN g : g[q] = f[q]

\* the effect of the exchange x on the files f, giving the files g
BlobStep(x, f, g) ==
    IF Succeeded(x, "upload", 201)
    THEN PutBlob(f, g, BlobPath(x.r.client, x.r.filename), x.r.body)
    ELSE IF Succeeded(x, "delete", 200)
    THEN DropBlob(f, g, BlobPath(x.r.client, x.r.filename))
    ELSE IF Succeeded(x, "list", 200)
    THEN /\ g = f
         /\ x.w.listing = {Base(n) : n \in {m \in BlobNames : BlobPath(x.r.client, m) \in DOMAIN f}}
    ELSE g = f

\* C20: a successful upload sets exactly the blob of its client and name to
\* the body, replacing what it held; a successful delete removes that blob
\* and no other; a successful list returns exactly the names of the client's
\* blobs; and nothing else changes a blob
C20_BlobStore == [][BlobStep(last', fs.files, fs'.files)]_vars

C20_Witness ==
    /\ Succeeded(last, "upload", 201)
    /\ IsFile(last.before, last.w.path)
    /\ last.before.files[last.w.path] # last.r.body
    /\ Cardinality(DOMAIN fs.files) = 3

\* the fields presignedUploadHandler takes from the bytes it decoded, in
\* full or up to the decoding error: parts[0], parts[1] parsed, parts[2]
UsedPath == TokenParts[1]
UsedExpiry == ParseInt(TokenParts[2]).val
UsedSig == TokenParts[3]

\* C21: presignedUploadHandler reaches saveFile, and the disk changes, only
\* in a request whose used fields pass the expiry check and the signature
\* check, also when decoding q reported an error; the file written is the
\* one the used path names and no other file changes
C21_WriteOnlyAfterChecks ==
    (Handled({"presignedupload"}) /\ (last.w.fsop # "none" \/ fs # last.before))
    => /\ Len(TokenParts) >= 3
       /\ ~Int64Less(UsedExpiry, Int64(now))
       /\ UsedSig = Mac(secret, UsedPath \o <<Ch.pipe>> \o FormatInt(UsedExpiry))
       /\ last.w.path = Clean(UsedPath)
       /\ fs.dirs = last.before.dirs
       /\ \A f \in (DOMAIN fs.files \cup DOMAIN last.before.files) \ {last.w.path} :
            /\ f \in DOMAIN fs.files
            /\ f \in DOMAIN last.before.files
            /\ fs.files[f] = last.before.files[f]

C21_Witness ==
    /\ Handled({"presignedupload"})
    /\ TokenBytes.err
    /\ last.w.msgs = <<"Could not decode q">>
    /\ fs # last.before
    /\ fs.files[Clean(UsedPath)] = last.r.body

\* the path p is the directory d or lies below it
Inside(p, d) ==
    \/ p = d
    \/ Len(p) > Len(d) /\ SubSeq(p, 1, Len(d) + 1) = d \o <<Ch.slash>>

\* the namespace of the client id c is untouched by the exchange in `last`:
\* its directory and its files are as before, and the path the handler
\* used, listed or signed is not in it
Untouched(c) ==
    /\ ~Inside(last.w.path, Join(<<storageRoot, c>>))
    /\ (Join(<<storageRoot, c>>) \in fs.dirs) = (Join(<<storageRoot, c>>) \in last.before.dirs)
    /\ \A f \in DOMAIN fs.files \cup DOMAIN last.before.files :
         Inside(f, Join(<<storageRoot, c>>))
         => /\ f \in DOMAIN fs.files
            /\ f \in DOMAIN last.before.files
            /\ fs.files[f] = last.before.files[f]
    /\ last.w.url # <<>> => ~Inside(TokenFields(last.w.url).path, Join(<<storageRoot, c>>))

\* C22: a request the Auth Gate admits carries the key registered for the
\* client id its handler derives, and leaves the namespace of every other
\* client untouched; a request with a key that is not that client's never
\* reaches a handler and changes nothing
C22_TenantBinding ==
    Handled(AuthRoutes)
    => /\ last.w.invoked
          => /\ Authentic(last.r.client, last.r.key)
             /\ \A c \in {ClientA, ClientB} \ {sanitizeClient(last.r.client)} : Untouched(c)
       /\ ~Authentic(last.r.client, last.r.key)
          => /\ ~last.w.invoked
             /\ NothingWritten
             /\ last.w.url = <<>>
             /\ last.w.listing = {}

C22_Witness ==
    /\ Handled({"upload", "delete"})
    /\ last.w.invoked
    /\ sanitizeClient(last.r.client) = ClientA
    /\ fs # last.before
    /\ Registered(ClientB)
    /\ \E f \in DOMAIN fs.files : Inside(f, Join(<<storageRoot, ClientB>>))

====
